---- MODULE Spec2Model ----
(***************************************************************************)
(* Message board MCP adapter (src/index.js) over the whole-document store  *)
(* (src/unnamed/part_000).  Every tool handler loads the whole Document,   *)
(* transforms it in memory and posts the whole Document back.              *)
(***************************************************************************)
EXTENDS Integers, Sequences, FiniteSets, TLC

VARIABLES stored, now, pc, req, loaded, body, result, fetches, codec, database

vars == <<stored, now, pc, req, loaded, body, result, fetches, codec, database>>

-----------------------------------------------------------------------------
(* Bounds of the model *)

\* longest tab sequence the model lets an operation build
MaxLen == 2
\* last tick of the clock
MaxTime == 2
\* largest message index the codec check encodes
MaxIndex == 11

-----------------------------------------------------------------------------
(* JavaScript values and string helpers *)

\* the value of `undefined` / an absent argument
NONE == "<undefined>"

\* String.prototype.indexOf, 1-based; 0 when pat does not occur
IndexOf(s, pat) ==
    LET hits == {j \in 1..(Len(s) - Len(pat) + 1) : SubSeq(s, j, j + Len(pat) - 1) = pat}
    IN  IF hits = {} THEN 0 ELSE CHOOSE j \in hits : \A h \in hits : j <= h

\* String.prototype.replace with a string pattern: the first occurrence only
Replace(s, pat, rep) ==
    LET j == IndexOf(s, pat)
    IN  IF j = 0 THEN s
        ELSE SubSeq(s, 1, j - 1) \o rep \o SubSeq(s, j + Len(pat), Len(s))

\* String.prototype.split with a non-empty string separator
RECURSIVE Split(_, _)
Split(s, sep) ==
    LET j == IndexOf(s, sep)
    IN  IF j = 0 THEN <<s>>
        ELSE <<SubSeq(s, 1, j - 1)>> \o Split(SubSeq(s, j + Len(sep), Len(s)), sep)

DecDigits == <<"0", "1", "2", "3", "4", "5", "6", "7", "8", "9">>
HexDigits == DecDigits \o <<"a", "b", "c", "d", "e", "f">>
HexUpper == DecDigits \o <<"A", "B", "C", "D", "E", "F">>

\* value of the digit c in the radix, -1 when c is not a digit of the radix
DigitVal(c, radix) ==
    LET hits == {d \in 1..radix : HexDigits[d] = c \/ HexUpper[d] = c}
    IN  IF hits = {} THEN -1 ELSE (CHOOSE d \in hits : TRUE) - 1

WhiteSpace == {" ", "\t", "\n", "\r"}

RECURSIVE TrimStart(_)
TrimStart(s) ==
    IF Len(s) > 0 /\ SubSeq(s, 1, 1) \in WhiteSpace
    THEN TrimStart(SubSeq(s, 2, Len(s))) ELSE s

\* the longest prefix of s made of digits of the radix, as <<count, value>>
RECURSIVE DigitRun(_, _, _, _)
DigitRun(s, radix, count, acc) ==
    IF Len(s) > 0 /\ DigitVal(SubSeq(s, 1, 1), radix) >= 0
    THEN DigitRun(SubSeq(s, 2, Len(s)), radix, count + 1,
                  acc * radix + DigitVal(SubSeq(s, 1, 1), radix))
    ELSE <<count, acc>>

NaN == [nan |-> TRUE, val |-> 0]
Number(n) == [nan |-> FALSE, val |-> n]

\* parseInt(string) without a radix argument: leading white space, a sign,
\* an optional 0x prefix, then digits up to the first non-digit
parseInt(s) ==
    LET t == TrimStart(s)
        neg == Len(t) > 0 /\ SubSeq(t, 1, 1) = "-"
        signed == Len(t) > 0 /\ SubSeq(t, 1, 1) \in {"-", "+"}
        u == IF signed THEN SubSeq(t, 2, Len(t)) ELSE t
        hex == Len(u) >= 2 /\ SubSeq(u, 1, 2) \in {"0x", "0X"}
        radix == IF hex THEN 16 ELSE 10
        run == DigitRun(IF hex THEN SubSeq(u, 3, Len(u)) ELSE u, radix, 0, 0)
    IN  IF run[1] = 0 THEN NaN
        ELSE Number(IF neg THEN 0 - run[2] ELSE run[2])

\* Number.prototype.toString for an integer, also the `${n}` interpolation
RECURSIVE NatToString(_)
NatToString(n) ==
    IF n < 10 THEN DecDigits[n + 1]
    ELSE NatToString(n \div 10) \o DecDigits[(n % 10) + 1]

toString(n) == IF n < 0 THEN "-" \o NatToString(0 - n) ELSE NatToString(n)

UpperCase == <<"A", "B", "C", "D", "E", "F", "G", "H", "I", "J", "K", "L", "M",
               "N", "O", "P", "Q", "R", "S", "T", "U", "V", "W", "X", "Y", "Z">>
LowerCase == <<"a", "b", "c", "d", "e", "f", "g", "h", "i", "j", "k", "l", "m",
               "n", "o", "p", "q", "r", "s", "t", "u", "v", "w", "x", "y", "z">>

\* the lower-case letter of each upper-case letter
LowerOf == [c \in {UpperCase[j] : j \in 1..26} |->
               LowerCase[CHOOSE j \in 1..26 : UpperCase[j] = c]]

\* String.prototype.toLowerCase
RECURSIVE toLowerCase(_)
toLowerCase(s) ==
    IF Len(s) = 0 THEN ""
    ELSE LET c == SubSeq(s, 1, 1)
         IN  (IF c \in DOMAIN LowerOf THEN LowerOf[c] ELSE c)
             \o toLowerCase(SubSeq(s, 2, Len(s)))

-----------------------------------------------------------------------------
(* The static tab table *)

\* Object.keys(TAB_NAMES): integer-like keys, in ascending numeric order
TabKeyOrder == <<"1", "2", "3", "4", "5", "6", "7", "8", "9", "10">>

TAB_NAMES ==
    "1" :> "First Messages" @@ "2" :> "Second Messages" @@
    "3" :> "Third Messages" @@ "4" :> "Fourth Messages" @@
    "5" :> "Short First" @@ "6" :> "Not Interested" @@
    "7" :> "Interested" @@ "8" :> "Affiliate" @@
    "9" :> "Old Connections" @@ "10" :> "New Task"

\* TAB_NAMES[tabKey] || `Tab ${tabKey}`
CategoryOf(tabKey) ==
    IF tabKey \in DOMAIN TAB_NAMES THEN TAB_NAMES[tabKey] ELSE "Tab " \o tabKey

\* the forEach scan over the table: a later match overwrites an earlier one
RECURSIVE ScanTabs(_, _, _)
ScanTabs(category, j, found) ==
    IF j > Len(TabKeyOrder) THEN found
    ELSE ScanTabs(category, j + 1,
                  IF toLowerCase(TAB_NAMES[TabKeyOrder[j]]) = toLowerCase(category)
                  THEN TabKeyOrder[j] ELSE found)

\* the tab key a category name resolves to, `default` when no name matches
ResolveTab(category, default) == ScanTabs(category, 1, default)

-----------------------------------------------------------------------------
(* The message id codec *)

\* `tab${tabKey}-msg${idx}`
EncodeId(tabKey, idx) == "tab" \o tabKey \o "-msg" \o toString(idx)

\* ParseId splitting on "-" instead of "-msg"
ParseId_dash(messageId) ==
    LET parts == Split(Replace(messageId, "tab", ""), "-")
    IN  [tabId |-> parseInt(parts[1]),
         msgIdx |-> IF Len(parts) >= 2 THEN parseInt(parts[2]) ELSE NaN]

\* const [tabId, msgIdx] = messageId.replace('tab', '').split('-msg')
\*                                  .map(part => parseInt(part))
ParseId(messageId) ==
    LET parts == Split(Replace(messageId, "tab", ""), "-msg")
    IN  [tabId |-> parseInt(parts[1]),
         msgIdx |-> IF Len(parts) >= 2 THEN parseInt(parts[2]) ELSE NaN]

\* !tabId || isNaN(msgIdx)
InvalidId(messageId) ==
    LET p == ParseId(messageId)
    IN  p.tabId.nan \/ p.tabId.val = 0 \/ p.msgIdx.nan

\* the decoded pair; const tabKey = tabId.toString()
DecodeId(messageId) ==
    LET p == ParseId(messageId)
    IN  [tabKey |-> toString(p.tabId.val), msgIdx |-> p.msgIdx.val]

-----------------------------------------------------------------------------
(* The Document: tab key -> JSON value, plus lastSaved *)

\* a JSON value held under a tab key; `undefined` is what reading an absent
\* key yields
Undefined == [kind |-> "undefined", str |-> "", num |-> 0, items |-> <<>>]
StrVal(s) == [kind |-> "string", str |-> s, num |-> 0, items |-> <<>>]
NumVal(n) == [kind |-> "number", str |-> "", num |-> n, items |-> <<>>]
ArrVal(items) == [kind |-> "array", str |-> "", num |-> 0, items |-> items]
\* a JSON object held under a key, by the keys of its entries
ObjVal(keys) == [kind |-> "object", str |-> "", num |-> 0, items |-> keys]

\* a Document is [tabs |-> function from the keys present to their values,
\* lastSaved |-> stamp]

\* allData[key]
Tab(allData, key) ==
    IF key \in DOMAIN allData.tabs THEN allData.tabs[key] ELSE Undefined

\* allData[key] = value
SetTab(allData, key, value) ==
    [allData EXCEPT !.tabs = (key :> value) @@ @]

\* JavaScript truthiness of a JSON value
Truthy(v) ==
    CASE v.kind \in {"array", "object"} -> TRUE
      [] v.kind = "string" -> v.str # ""
      [] v.kind = "number" -> v.num # 0
      [] OTHER -> FALSE

\* Array.isArray
IsArray(v) == v.kind = "array"

\* typeof oldContent === 'string' ? oldContent : JSON.stringify(oldContent)
Stringify(v) == IF v.kind = "string" THEN v.str ELSE toString(v.num)

\* Given that takes every present string, the empty one included
Given_present(arg) == arg # NONE

\* truthiness of a string argument: absent and "" are both falsy
Given(arg) == arg # NONE /\ arg # ""

\* !allData[tabKey] || !Array.isArray(allData[tabKey]) || !allData[tabKey][msgIdx]
MessageMissing(allData, tabKey, msgIdx) ==
    LET tab == Tab(allData, tabKey)
    IN  \/ ~Truthy(tab)
        \/ ~IsArray(tab)
        \/ msgIdx < 0
        \/ msgIdx >= Len(tab.items)
        \/ tab.items[msgIdx + 1] = ""

\* "make sure the tab exists as an array": [] when falsy, the old value
\* wrapped as a one-element array when it is not an array
AsArray(v) ==
    IF ~Truthy(v) THEN <<>>
    ELSE IF ~IsArray(v) THEN <<Stringify(v)>>
    ELSE v.items

\* Splice removing the element after the index
Splice_next(items, idx) == SubSeq(items, 1, idx + 1) \o SubSeq(items, idx + 3, Len(items))

\* Array.prototype.splice(idx, 1) on a 0-based index within bounds
Splice(items, idx) == SubSeq(items, 1, idx) \o SubSeq(items, idx + 2, Len(items))

\* message.substring(0, 50) + (message.length > 50 ? '...' : '')
TitleLen == 50
TitleOf(message) ==
    IF Len(message) > TitleLen THEN SubSeq(message, 1, TitleLen) \o "..." ELSE message

\* new Date().toLocaleString(): the stamp naming the clock's tick
toLocaleString(t) == "t" \o toString(t)

-----------------------------------------------------------------------------
(* Tool results *)

NoResult ==
    [isError |-> FALSE, error |-> "pending", id |-> NONE, title |-> NONE,
     content |-> NONE, tabId |-> NONE, category |-> NONE,
     messages |-> <<>>, categories |-> <<>>]

\* { content: [{type:'text', text: `Error ...: ${error.message}`}], isError: true }
ErrorResult(kind) == [NoResult EXCEPT !.isError = TRUE, !.error = kind]

\* a success payload describing one message
View(id, title, content, tabKey) ==
    [NoResult EXCEPT !.error = "none", !.id = id, !.title = title,
                     !.content = content, !.tabId = tabKey,
                     !.category = CategoryOf(tabKey)]

Succeeded(r) == ~r.isError /\ r.error = "none"

\* a value returned to the protocol layer that is no tool result at all:
\* neither { content: [...] } nor { content: [...], isError: true }
Unstructured(text) == [NoResult EXCEPT !.error = "unstructured", !.content = text]

-----------------------------------------------------------------------------
(* The handlers' synchronous parts, as functions of the loaded Document *)

\* get_message after the load: decode, existence check, view
get_message(allData, args) ==
    LET id == DecodeId(args.messageId)
    IN  IF InvalidId(args.messageId) THEN ErrorResult("InvalidIdFormat")
        ELSE IF MessageMissing(allData, id.tabKey, id.msgIdx)
             THEN ErrorResult("MessageNotFound")
        ELSE LET message == Tab(allData, id.tabKey).items[id.msgIdx + 1]
             IN  View(args.messageId, TitleOf(message), message, id.tabKey)

\* the keys of the loaded object that parse as integers, in the order
\* Object.keys yields them: ascending numeric order
RECURSIVE SortKeys(_)
SortKeys(keys) ==
    IF keys = {} THEN <<>>
    ELSE LET k == CHOOSE x \in keys :
                      \A y \in keys : parseInt(x).val <= parseInt(y).val
         IN  <<k>> \o SortKeys(keys \ {k})

\* Object.keys(allData).filter(key => key !== "lastSaved" && !isNaN(parseInt(key)))
NumericKeys(allData) == SortKeys({k \in DOMAIN allData.tabs : ~parseInt(k).nan})

\* Object.keys(TAB_NAMES).filter(key => TAB_NAMES[key].toLowerCase() ===
\*                                       args.category.toLowerCase())
MatchingKeys(category) ==
    SelectSeq(TabKeyOrder,
              LAMBDA key : toLowerCase(TAB_NAMES[key]) = toLowerCase(category))

\* get_messages_targetTabs that lists every tab when no name matches
get_messages_targetTabs_fallback(allData, args) ==
    IF Given(args.category) /\ MatchingKeys(args.category) # <<>>
    THEN MatchingKeys(args.category)
    ELSE NumericKeys(allData)

\* the tab keys get_messages reads
get_messages_targetTabs(allData, args) ==
    IF Given(args.category) THEN MatchingKeys(args.category)
    ELSE NumericKeys(allData)

\* one element of the list get_messages builds
MessageView(tabKey, idx, message) ==
    [id |-> EncodeId(tabKey, idx), title |-> TitleOf(message), content |-> message,
     tabId |-> tabKey, category |-> CategoryOf(tabKey)]

\* the views of one tab; none unless Array.isArray(allData[tabKey])
TabViews(allData, tabKey) ==
    LET tab == Tab(allData, tabKey)
    IN  IF IsArray(tab)
        THEN [j \in 1..Len(tab.items) |-> MessageView(tabKey, j - 1, tab.items[j])]
        ELSE <<>>

\* targetTabs.forEach(...): the views of the target tabs, concatenated
RECURSIVE Flatten(_, _)
Flatten(allData, targetTabs) ==
    IF targetTabs = <<>> THEN <<>>
    ELSE TabViews(allData, Head(targetTabs)) \o Flatten(allData, Tail(targetTabs))

\* Array.prototype.slice(start, end): a negative bound counts from the end
SliceBound(len, j) ==
    IF j < 0 THEN (IF len + j < 0 THEN 0 ELSE len + j)
    ELSE (IF j > len THEN len ELSE j)

Slice(items, start, end) ==
    LET from == SliceBound(Len(items), start)
        to == SliceBound(Len(items), end)
    IN  IF from >= to THEN <<>> ELSE SubSeq(items, from + 1, to)

\* truthiness of a numeric argument: undefined, NaN and 0 are falsy
GivenNumber(n) == ~n.nan /\ n.val # 0

\* if (args.limit) { limit = parseInt(args.limit); page = parseInt(args.page || 1);
\*                    start = (page - 1) * limit; slice(start, start + limit) }
Paginate(messages, args) ==
    IF GivenNumber(args.limit)
    THEN LET limit == args.limit.val
             page == IF GivenNumber(args.page) THEN args.page.val ELSE 1
             start == (page - 1) * limit
         IN  Slice(messages, start, start + limit)
    ELSE messages

\* get_messages after the load
get_messages(allData, args) ==
    [NoResult EXCEPT
        !.error = "none",
        !.messages = Paginate(Flatten(allData, get_messages_targetTabs(allData, args)),
                              args)]

\* get_categories leaving out the last key of the table
get_categories_short ==
    [NoResult EXCEPT
        !.error = "none",
        !.categories = [j \in 1..(Len(TabKeyOrder) - 1) |->
                           [id |-> TabKeyOrder[j], name |-> TAB_NAMES[TabKeyOrder[j]]]]]

\* get_categories: Object.keys(TAB_NAMES).map(key => ({id: key, name: TAB_NAMES[key]}))
get_categories ==
    [NoResult EXCEPT
        !.error = "none",
        !.categories = [j \in 1..Len(TabKeyOrder) |->
                           [id |-> TabKeyOrder[j], name |-> TAB_NAMES[TabKeyOrder[j]]]]]

\* create_message between the load and the save: target tab, coercion, push
\* create_tabKey comparing the names as written, not lower-cased
create_tabKey_exact(args) ==
    IF args.category \in {TAB_NAMES[k] : k \in DOMAIN TAB_NAMES}
    THEN CHOOSE k \in DOMAIN TAB_NAMES : TAB_NAMES[k] = args.category
    ELSE "1"

create_tabKey(args) ==
    IF Given(args.category) THEN ResolveTab(args.category, "1") ELSE "1"

\* create_message that stores the title in front of the content
create_message_titled(allData, args) ==
    LET tabKey == create_tabKey(args)
    IN  SetTab(allData, tabKey,
               ArrVal(Append(AsArray(Tab(allData, tabKey)),
                             args.title \o ": " \o args.content)))

create_message(allData, args) ==
    LET tabKey == create_tabKey(args)
    IN  SetTab(allData, tabKey,
               ArrVal(Append(AsArray(Tab(allData, tabKey)), args.content)))

\* create_response numbering the new message by the length of its tab
create_response_length(allData, args) ==
    LET tabKey == create_tabKey(args)
    IN  View(EncodeId(tabKey, Len(allData.tabs[tabKey].items)),
             args.title, args.content, tabKey)

\* the response of create_message, built from the mutated allData
create_response(allData, args) ==
    LET tabKey == create_tabKey(args)
    IN  View(EncodeId(tabKey, Len(allData.tabs[tabKey].items) - 1),
             args.title, args.content, tabKey)

\* update_content that drops the new content
update_content_dropped(allData, args, tabKey, msgIdx) == allData

\* update_message between the load and the save; `time` is new Date()
update_content(allData, args, tabKey, msgIdx) ==
    IF Given(args.content)
    THEN [allData EXCEPT !.tabs[tabKey].items[msgIdx + 1] = args.content]
    ELSE allData

\* update_newTabKey that falls back to tab "1" when no name matches
update_newTabKey_default(args, tabKey) ==
    IF Given(args.category) THEN ResolveTab(args.category, "1") ELSE tabKey

update_newTabKey(args, tabKey) ==
    IF Given(args.category) THEN ResolveTab(args.category, tabKey) ELSE tabKey

\* update_move that copies the message without removing it from its tab
update_move_copy(allData, tabKey, msgIdx, newTabKey) ==
    IF newTabKey # tabKey
    THEN SetTab(allData, newTabKey,
                ArrVal(Append(AsArray(Tab(allData, newTabKey)),
                              allData.tabs[tabKey].items[msgIdx + 1])))
    ELSE allData

update_move(allData, tabKey, msgIdx, newTabKey) ==
    IF newTabKey # tabKey
    THEN LET messageContent == allData.tabs[tabKey].items[msgIdx + 1]
             removed == [allData EXCEPT !.tabs[tabKey].items = Splice(@, msgIdx)]
         IN  SetTab(removed, newTabKey,
                    ArrVal(Append(AsArray(Tab(removed, newTabKey)), messageContent)))
    ELSE allData

\* update_message that leaves lastSaved as loaded
update_message_stale(allData, args, time) ==
    LET id == DecodeId(args.messageId)
        edited == update_content(allData, args, id.tabKey, id.msgIdx)
    IN  update_move(edited, id.tabKey, id.msgIdx, update_newTabKey(args, id.tabKey))

update_message(allData, args, time) ==
    LET id == DecodeId(args.messageId)
        edited == update_content(allData, args, id.tabKey, id.msgIdx)
        moved == update_move(edited, id.tabKey, id.msgIdx,
                             update_newTabKey(args, id.tabKey))
    IN  [moved EXCEPT !.lastSaved = toLocaleString(time)]

\* the response of update_message, built from the mutated allData:
\* content: args.content || allData[tabKey][msgIdx]
update_response(allData, args) ==
    LET id == DecodeId(args.messageId)
        items == Tab(allData, id.tabKey).items
    IN  View(args.messageId,
             IF Given(args.title) THEN args.title ELSE NONE,
             IF Given(args.content) THEN args.content
             ELSE IF id.msgIdx < Len(items) THEN items[id.msgIdx + 1] ELSE NONE,
             id.tabKey)

\* delete_message that removes the last element of the tab
delete_message_last(allData, args, time) ==
    LET id == DecodeId(args.messageId)
    IN  [allData EXCEPT !.tabs[id.tabKey].items = SubSeq(@, 1, Len(@) - 1),
                        !.lastSaved = toLocaleString(time)]

\* delete_message between the load and the save
delete_message(allData, args, time) ==
    LET id == DecodeId(args.messageId)
    IN  [allData EXCEPT !.tabs[id.tabKey].items = Splice(@, id.msgIdx),
                        !.lastSaved = toLocaleString(time)]

\* the deletion receipt { success, messageId, tabId, category, deletedAt }
delete_response(args) ==
    LET id == DecodeId(args.messageId)
    IN  View(args.messageId, NONE, NONE, id.tabKey)

\* CheckId looking the message up before validating the id
CheckId_lookupFirst(allData, args) ==
    LET id == DecodeId(args.messageId)
    IN  IF MessageMissing(allData, id.tabKey, id.msgIdx) THEN "MessageNotFound"
        ELSE IF InvalidId(args.messageId) THEN "InvalidIdFormat"
        ELSE "ok"

\* the id and existence checks shared by update_message and delete_message
CheckId(allData, args) ==
    LET id == DecodeId(args.messageId)
    IN  IF InvalidId(args.messageId) THEN "InvalidIdFormat"
        ELSE IF MessageMissing(allData, id.tabKey, id.msgIdx) THEN "MessageNotFound"
        ELSE "ok"

\* handleSaveData that keeps the stored keys the posted object lacks
handleSaveData_merge(current, data) == [data EXCEPT !.tabs = data.tabs @@ current.tabs]

\* POST /api/save-data: the posted object replaces the stored document whole
handleSaveData(current, data) == data

-----------------------------------------------------------------------------
(* The store's side of a load: GET /data.json *)

\* no document held (before the load, or none posted)
NoDoc == [tabs |-> <<>>, lastSaved |-> NONE]

\* the store holds no document: data.json does not exist
NoFile == NoDoc

\* storage = null: the database module could not be loaded and the store
\* runs on its file
NoDatabase == [storage |-> FALSE, data |-> NoDoc]

\* the keys of the object getDefaultData() puts under "tabs"; each entry is
\* { name: <display name>, messages: [] }
DefaultTabs == <<"emergency", "requests", "updates", "confirmations", "follow-ups",
                 "closures", "escalations", "notifications", "reports", "reminders">>

\* getDefaultData(): { tabs: { emergency: {...}, ... }, lastSaved: now }
getDefaultData(time) ==
    [tabs |-> ("tabs" :> ObjVal(DefaultTabs)), lastSaved |-> toLocaleString(time)]

\* loadDataFromFile(): the parsed data.json when the file exists, else the
\* default structure; `file` is the document on disk, NoFile when none is
loadDataFromFile(file, time) ==
    IF file = NoFile THEN getDefaultData(time) ELSE file

\* handleGetData without database storage: the file fallback
handleGetData(file, time) == loadDataFromFile(file, time)

-----------------------------------------------------------------------------
(* Callers, requests and the inputs the model draws *)

\* an absent numeric argument: undefined is falsy and parses to NaN, as NaN
NoNumber == NaN

NoArgs ==
    [messageId |-> NONE, title |-> NONE, content |-> NONE, category |-> NONE,
     author |-> NONE, limit |-> NoNumber, page |-> NoNumber]

\* the requests a call has issued so far: GETs of /data.json, POSTs of
\* /api/save-data, and the POSTs the store answered with a failure
NoFetches == [loads |-> 0, saves |-> 0, refused |-> 0]

NoReq == [op |-> "none", args |-> NoArgs]

\* ids of the first two tabs up to one index past the longest sequence
WellFormedIds == {EncodeId(k, i) : k \in {"1", "2"}, i \in 0..MaxLen}

\* ids of a tab keyed "0", of a tab outside the table, with a negative index,
\* with an unparsable part, without index part, and the empty string
OtherIds == {"tab0-msg0", "tab11-msg0", "tab1-msg-1", "tabx-msg0", "tab1-msgx",
             "tab1", ""}

MessageIds == {NONE} \cup WellFormedIds \cup OtherIds
Titles == {NONE, "X"}
Contents == {NONE, "", "world"}
Categories == {NONE, "First Messages", "second messages", "Nonexistent"}

IdArgs == {[NoArgs EXCEPT !.messageId = m] : m \in MessageIds}
Limits == {NoNumber, Number(0), Number(1), Number(2)}
Pages == {NoNumber, Number(0), Number(1), Number(2)}

ListArgs ==
    {[NoArgs EXCEPT !.category = cat, !.limit = l, !.page = pg] :
        cat \in Categories \cup {""}, l \in Limits, pg \in Pages}

\* title and author of a call: neither, a title alone, another title with
\* an author
TitledBy == {<<NONE, NONE>>, <<"X", NONE>>, <<"Y", "ann">>}

CreateArgs ==
    {[NoArgs EXCEPT !.title = t[1], !.author = t[2], !.content = c, !.category = cat] :
        t \in TitledBy, c \in Contents, cat \in Categories}
\* every combination for the well-formed ids; for the other ids, the call
\* without further arguments and the call with all of them
UpdateArgs ==
    {[NoArgs EXCEPT !.messageId = m, !.title = t[1], !.author = t[2],
                    !.content = c, !.category = cat] :
        m \in WellFormedIds, t \in TitledBy, c \in Contents, cat \in Categories}
    \cup
    {[NoArgs EXCEPT !.messageId = m, !.title = t[1], !.content = t[2],
                    !.category = t[3]] :
        m \in {NONE} \cup OtherIds,
        t \in {<<NONE, NONE, NONE>>, <<"X", "world", "second messages">>}}

\* the values the first two tabs hold in an initial Document
InitTabVals ==
    {Undefined, StrVal("note"), NumVal(0), NumVal(5), ArrVal(<<>>),
     ArrVal(<<"hello">>), ArrVal(<<"">>), ArrVal(<<"hello", "">>),
     ArrVal(<<"hello", "world">>)}

\* a Document from the values of its tabs "1" and "2" and of the keys
\* "0" and "11"; an `undefined` value leaves the key out
MakeDoc(v1, v2, extra, stamp) ==
    LET vals == ("1" :> v1) @@ ("2" :> v2) @@ ("0" :> extra) @@ ("11" :> extra)
        present == {k \in DOMAIN vals : vals[k] # Undefined}
    IN  [tabs |-> [k \in present |-> vals[k]], lastSaved |-> stamp]

\* the values tab "2" holds in an initial Document
InitTabVals2 ==
    {Undefined, StrVal("note"), NumVal(0), ArrVal(<<>>), ArrVal(<<"world">>)}

InitDocs ==
    {MakeDoc(v1, v2, extra, "t0") :
        v1 \in InitTabVals, v2 \in InitTabVals2,
        extra \in {Undefined, ArrVal(<<"hello">>)}}

\* the model's cap on the sequences an operation may build
WithinBounds(doc) ==
    \A k \in DOMAIN doc.tabs : IsArray(doc.tabs[k]) => Len(doc.tabs[k].items) <= MaxLen

-----------------------------------------------------------------------------
(* Actions: each handler, split at its awaits *)

\* entry of a handler up to its first await: the required-argument check,
\* then the GET of the whole document is issued
Enter(p, tool, args, missing) ==
    /\ pc[p] = "idle"
    /\ req' = [req EXCEPT ![p] = [op |-> tool, args |-> args]]
    /\ IF missing
       THEN /\ pc' = [pc EXCEPT ![p] = "done"]
            /\ result' = [result EXCEPT ![p] = ErrorResult("MissingRequiredField")]
            /\ UNCHANGED fetches
       ELSE /\ pc' = [pc EXCEPT ![p] = "loading"]
            /\ result' = [result EXCEPT ![p] = NoResult]
            /\ fetches' = [fetches EXCEPT ![p].loads = @ + 1]
    /\ UNCHANGED <<stored, now, loaded, body, codec, database>>

\* the six own properties of the handlers object
ToolNames == {"get_messages", "get_message", "create_message", "update_message",
              "delete_message", "get_categories"}

\* handlers[name]: an own method, a property inherited from Object.prototype
\* (toString is a function, __proto__ is an object), or undefined
Lookup(name) ==
    CASE name \in ToolNames -> "method"
      [] name = "toString" -> "inherited function"
      [] name = "__proto__" -> "inherited object"
      [] OTHER -> "undefined"

\* the CallToolRequestSchema handler for a name that is no own method:
\* !handlers[name] answers Unknown tool; a truthy inherited property is
\* called: Object.prototype.toString returns "[object Object]", which is
\* returned as it is, and calling an object throws into the catch
call_tool(p, names) ==
    /\ pc[p] = "idle"
    /\ \E name \in names :
          /\ Lookup(name) # "method"
          /\ req' = [req EXCEPT ![p] = [op |-> name, args |-> NoArgs]]
          /\ result' = [result EXCEPT ![p] =
                 CASE Lookup(name) = "undefined" -> ErrorResult("UnknownTool")
                   [] Lookup(name) = "inherited function" ->
                          Unstructured("[object Object]")
                   [] OTHER -> ErrorResult("ExecutionFailure")]
    /\ pc' = [pc EXCEPT ![p] = "done"]
    /\ UNCHANGED <<stored, now, loaded, body, codec, fetches, database>>

\* names of tools that are no method of the handlers object
OtherNames == {"unknown_tool", "toString", "__proto__"}

\* get_messages checks no argument before its load
get_messages_call(p, argSet) ==
    \E args \in argSet : Enter(p, "get_messages", args, FALSE)

\* get_categories awaits nothing: it answers from the table at once
get_categories_call(p) ==
    /\ pc[p] = "idle"
    /\ req' = [req EXCEPT ![p] = [op |-> "get_categories", args |-> NoArgs]]
    /\ pc' = [pc EXCEPT ![p] = "done"]
    /\ result' = [result EXCEPT ![p] = get_categories]
    /\ UNCHANGED <<stored, now, loaded, body, codec, fetches, database>>

get_message_call(p, argSet) ==
    \E args \in argSet : Enter(p, "get_message", args, ~Given(args.messageId))

create_message_call(p, argSet) ==
    \E args \in argSet :
        Enter(p, "create_message", args, ~Given(args.title) \/ ~Given(args.content))

update_message_call(p, argSet) ==
    \E args \in argSet : Enter(p, "update_message", args, ~Given(args.messageId))

delete_message_call(p, argSet) ==
    \E args \in argSet : Enter(p, "delete_message", args, ~Given(args.messageId))

\* const allData = await apiRequest('/data.json'): what the GET returns now
apiRequest == handleGetData(stored, now)

\* apiRequest throws: the handler's catch turns it into an error result
LoadFails(p) ==
    /\ pc[p] = "loading"
    /\ pc' = [pc EXCEPT ![p] = "done"]
    /\ result' = [result EXCEPT ![p] = ErrorResult("PersistenceFailure")]
    /\ UNCHANGED <<stored, now, req, loaded, body, codec, fetches, database>>

\* Fail of a handler that stamps and stores the document before its checks
Fail_stamped(p, kind) ==
    /\ loaded' = [loaded EXCEPT ![p] = apiRequest]
    /\ stored' = [stored EXCEPT !.lastSaved = toLocaleString(now)]
    /\ pc' = [pc EXCEPT ![p] = "done"]
    /\ result' = [result EXCEPT ![p] = ErrorResult(kind)]
    /\ UNCHANGED <<now, req, body, codec, fetches, database>>

\* the handler fails after the load, before any save is issued;
\* loaded keeps the document as the GET returned it
Fail(p, kind) ==
    /\ loaded' = [loaded EXCEPT ![p] = apiRequest]
    /\ pc' = [pc EXCEPT ![p] = "done"]
    /\ result' = [result EXCEPT ![p] = ErrorResult(kind)]
    /\ UNCHANGED <<stored, now, req, body, codec, fetches, database>>

\* the handler has mutated allData and issued the POST of the whole document
Post(p, allData) ==
    /\ WithinBounds(allData)
    /\ loaded' = [loaded EXCEPT ![p] = apiRequest]
    /\ pc' = [pc EXCEPT ![p] = "saving"]
    /\ body' = [body EXCEPT ![p] = allData]
    /\ fetches' = [fetches EXCEPT ![p].saves = @ + 1]
    /\ UNCHANGED <<stored, now, req, result, codec, database>>

\* get_messages_loaded that stamps the document and writes it back
get_messages_loaded_save(p) ==
    /\ pc[p] = "loading"
    /\ req[p].op = "get_messages"
    /\ pc' = [pc EXCEPT ![p] = "done"]
    /\ loaded' = [loaded EXCEPT ![p] = apiRequest]
    /\ result' = [result EXCEPT ![p] = get_messages(apiRequest, req[p].args)]
    /\ stored' = [stored EXCEPT !.lastSaved = toLocaleString(now)]
    /\ fetches' = [fetches EXCEPT ![p].saves = @ + 1]
    /\ UNCHANGED <<now, req, body, codec, database>>

get_messages_loaded(p) ==
    /\ pc[p] = "loading"
    /\ req[p].op = "get_messages"
    /\ pc' = [pc EXCEPT ![p] = "done"]
    /\ loaded' = [loaded EXCEPT ![p] = apiRequest]
    /\ result' = [result EXCEPT ![p] = get_messages(apiRequest, req[p].args)]
    /\ UNCHANGED <<stored, now, req, body, codec, fetches, database>>

get_message_loaded(p) ==
    /\ pc[p] = "loading"
    /\ req[p].op = "get_message"
    /\ pc' = [pc EXCEPT ![p] = "done"]
    /\ loaded' = [loaded EXCEPT ![p] = apiRequest]
    /\ result' = [result EXCEPT ![p] = get_message(apiRequest, req[p].args)]
    /\ UNCHANGED <<stored, now, req, body, codec, fetches, database>>

create_message_loaded(p) ==
    /\ pc[p] = "loading"
    /\ req[p].op = "create_message"
    /\ Post(p, create_message(apiRequest, req[p].args))

update_message_loaded(p) ==
    /\ pc[p] = "loading"
    /\ req[p].op = "update_message"
    /\ LET check == CheckId(apiRequest, req[p].args)
       IN  IF check # "ok" THEN Fail(p, check)
           ELSE Post(p, update_message(apiRequest, req[p].args, now))

delete_message_loaded(p) ==
    /\ pc[p] = "loading"
    /\ req[p].op = "delete_message"
    /\ LET check == CheckId(apiRequest, req[p].args)
       IN  IF check # "ok" THEN Fail(p, check)
           ELSE Post(p, delete_message(apiRequest, req[p].args, now))

\* the store answers the POST with success: the document is replaced and
\* the handler builds its response from its own allData
Saved(p, tool, response) ==
    /\ pc[p] = "saving"
    /\ req[p].op = tool
    /\ stored' = handleSaveData(stored, body[p])
    /\ pc' = [pc EXCEPT ![p] = "done"]
    /\ result' = [result EXCEPT ![p] = response]
    /\ UNCHANGED <<now, req, loaded, body, codec, fetches, database>>

create_message_saved(p) ==
    Saved(p, "create_message", create_response(body[p], req[p].args))

update_message_saved(p) ==
    Saved(p, "update_message", update_response(body[p], req[p].args))

delete_message_saved(p) ==
    Saved(p, "delete_message", delete_response(req[p].args))

\* SaveFails of a handler that posts the document again after a failure
SaveFails_retry(p) ==
    /\ pc[p] = "saving"
    /\ fetches[p].saves < 2
    /\ fetches' = [fetches EXCEPT ![p].refused = @ + 1, ![p].saves = @ + 1]
    /\ UNCHANGED <<stored, now, pc, req, loaded, body, result, codec, database>>

\* !saveResponse.ok: nothing is stored and the handler's catch reports it
SaveFails(p) ==
    /\ pc[p] = "saving"
    /\ pc' = [pc EXCEPT ![p] = "done"]
    /\ result' = [result EXCEPT ![p] = ErrorResult("PersistenceFailure")]
    /\ fetches' = [fetches EXCEPT ![p].refused = @ + 1]
    /\ UNCHANGED <<stored, now, req, loaded, body, codec, database>>

\* the caller has received the result and may call again
Return(p) ==
    /\ pc[p] = "done"
    /\ pc' = [pc EXCEPT ![p] = "idle"]
    /\ req' = [req EXCEPT ![p] = NoReq]
    /\ loaded' = [loaded EXCEPT ![p] = NoDoc]
    /\ body' = [body EXCEPT ![p] = NoDoc]
    /\ result' = [result EXCEPT ![p] = NoResult]
    /\ fetches' = [fetches EXCEPT ![p] = NoFetches]
    /\ UNCHANGED <<stored, now, codec, database>>

\* the wall clock advances
Tick ==
    /\ now < MaxTime
    /\ now' = now + 1
    /\ UNCHANGED <<stored, pc, req, loaded, body, result, codec, fetches, database>>

-----------------------------------------------------------------------------
(* Specifications *)

NoCodec == [phase |-> "off", tabKey |-> NONE, msgIdx |-> 0, id |-> NONE,
            decoded |-> [tabKey |-> NONE, msgIdx |-> 0], invalid |-> FALSE]

\* the handler steps of caller p, with the arguments drawn from the given sets
Handlers(p, listArgs, idArgs, createArgs, updateArgs) ==
    \/ call_tool(p, OtherNames)
    \/ get_messages_call(p, listArgs)
    \/ get_categories_call(p)
    \/ get_messages_loaded(p)
    \/ get_message_call(p, idArgs)
    \/ create_message_call(p, createArgs)
    \/ update_message_call(p, updateArgs)
    \/ delete_message_call(p, idArgs)
    \/ LoadFails(p)
    \/ get_message_loaded(p)
    \/ create_message_loaded(p)
    \/ update_message_loaded(p)
    \/ delete_message_loaded(p)
    \/ create_message_saved(p)
    \/ update_message_saved(p)
    \/ delete_message_saved(p)
    \/ SaveFails(p)

InitWith(docs, callers) ==
    /\ stored \in docs
    /\ now = 1
    /\ pc = [p \in callers |-> "idle"]
    /\ req = [p \in callers |-> NoReq]
    /\ loaded = [p \in callers |-> NoDoc]
    /\ body = [p \in callers |-> NoDoc]
    /\ result = [p \in callers |-> NoResult]
    /\ fetches = [p \in callers |-> NoFetches]
    /\ database = NoDatabase

\* one operation of one caller on any initial Document
Init == InitWith(InitDocs, {1}) /\ codec = NoCodec

Next ==
    \/ Handlers(1, ListArgs, IdArgs, CreateArgs, UpdateArgs)
    \/ Tick

Spec == Init /\ [][Next]_vars

-----------------------------------------------------------------------------
(* Properties of one operation *)

\* caller p has finished a call of the tool
Done(p, tool) == pc[p] = "done" /\ req[p].op = tool

\* caller p has finished a call of the tool with a success payload
DoneOk(p, tool) == Done(p, tool) /\ Succeeded(result[p])

\* the (tab key, index) pair the finished call of p addressed
Target(p) == DecodeId(req[p].args.messageId)

\* number of elements of the sequence under a key; none when the key is
\* absent or holds no sequence
LenOf(doc, key) == IF IsArray(Tab(doc, key)) THEN Len(Tab(doc, key).items) ELSE 0

RECURSIVE SumLen(_, _)
SumLen(doc, keys) ==
    IF keys = {} THEN 0
    ELSE LET k == CHOOSE x \in keys : TRUE
         IN  LenOf(doc, k) + SumLen(doc, keys \ {k})

\* total number of messages across all tabs
Total(doc) == SumLen(doc, DOMAIN doc.tabs)

\* C1: after a successful create_message(t, c, cat), get_message with the
\* returned id on the stored Document succeeds and returns content c
C1_GetAfterCreate ==
    \A p \in DOMAIN pc :
        DoneOk(p, "create_message") =>
            LET got == get_message(stored, [NoArgs EXCEPT !.messageId = result[p].id])
            IN  Succeeded(got) /\ got.content = req[p].args.content

\* a create into a tab that held a legacy scalar has succeeded
C1_Witness ==
    /\ DoneOk(1, "create_message")
    /\ req[1].args.category = "second messages"
    /\ Tab(loaded[1], "2") = StrVal("note")
    /\ result[1].id = "tab2-msg1"

\* the finished update of p moved its message to another tab
Moved(p) ==
    /\ DoneOk(p, "update_message")
    /\ update_newTabKey(req[p].args, Target(p).tabKey) # Target(p).tabKey

Destination(p) == update_newTabKey(req[p].args, Target(p).tabKey)

\* the destination of the move held a truthy value that is not a sequence
LegacyDestination(p) ==
    LET v == Tab(loaded[p], Destination(p)) IN Truthy(v) /\ ~IsArray(v)

\* C3 as claimed: after a successful update_message that moves (k, i) to
\* another tab, tab k is shorter by 1, the destination longer by 1 and the
\* total number of messages unchanged, for every Document
C3_MoveLengths_Original ==
    \A p \in DOMAIN pc :
        Moved(p) =>
            /\ LenOf(stored, Target(p).tabKey) = LenOf(loaded[p], Target(p).tabKey) - 1
            /\ LenOf(stored, Destination(p)) = LenOf(loaded[p], Destination(p)) + 1
            /\ Total(stored) = Total(loaded[p])

\* C3 amended: tab k is always shorter by 1; the destination is longer by 1
\* and the total unchanged when the destination was absent, falsy or a
\* sequence; a truthy non-sequence destination is wrapped first, so it ends
\* with 2 elements and the total grows by 1
C3_MoveLengths ==
    \A p \in DOMAIN pc :
        Moved(p) =>
            /\ LenOf(stored, Target(p).tabKey) = LenOf(loaded[p], Target(p).tabKey) - 1
            /\ IF LegacyDestination(p)
               THEN /\ LenOf(stored, Destination(p)) = 2
                    /\ Total(stored) = Total(loaded[p]) + 1
               ELSE /\ LenOf(stored, Destination(p)) = LenOf(loaded[p], Destination(p)) + 1
                    /\ Total(stored) = Total(loaded[p])

\* a message has moved from a 2-element tab into a tab that was a sequence
C3_Witness ==
    /\ Moved(1)
    /\ ~LegacyDestination(1)
    /\ LenOf(loaded[1], "1") = 2
    /\ LenOf(loaded[1], "2") = 1
    /\ LenOf(stored, "1") = 1
    /\ LenOf(stored, "2") = 2

\* C4 as claimed: after a successful delete_message(k, i), get_message with
\* the same id is MessageNotFound unless tab k had a message at i+1, in
\* which case the id resolves to that message's content
C4_GetAfterDelete ==
    \A p \in DOMAIN pc :
        DoneOk(p, "delete_message") =>
            LET got == get_message(stored, req[p].args)
                items == Tab(loaded[p], Target(p).tabKey).items
                i == Target(p).msgIdx
            IN  IF i + 2 <= Len(items)
                THEN Succeeded(got) /\ got.content = items[i + 2]
                ELSE got.error = "MessageNotFound"

\* the errors raised before any mutation
QuietErrors == {"MissingRequiredField", "InvalidIdFormat", "MessageNotFound"}

\* C6: an operation that fails with MissingRequiredField, InvalidIdFormat
\* or MessageNotFound has issued no save and leaves the stored Document as
\* it was
C6_FailureWritesNothing ==
    [][\A p \in DOMAIN pc :
          (pc[p] # "done" /\ pc'[p] = "done" /\ result'[p].error \in QuietErrors) =>
              /\ stored' = stored
              /\ pc[p] # "saving"
              /\ body'[p] = NoDoc]_vars

\* an update with content and category has failed on a message that does
\* not exist, and the Document is as loaded
C6_Witness ==
    /\ Done(1, "update_message")
    /\ result[1].error = "MessageNotFound"
    /\ req[1].args.content = "world"
    /\ req[1].args.category = "second messages"
    /\ stored = loaded[1]
    /\ body[1] = NoDoc

\* the tab is absent, is not a sequence, or the index is out of its bounds
OutOfDocument(doc, tabKey, msgIdx) ==
    \/ tabKey \notin DOMAIN doc.tabs
    \/ ~IsArray(Tab(doc, tabKey))
    \/ msgIdx < 0
    \/ msgIdx >= Len(Tab(doc, tabKey).items)

\* the call of p had a well-formed id and its load succeeded
Looked(p) ==
    /\ pc[p] = "done"
    /\ loaded[p] # NoDoc
    /\ Given(req[p].args.messageId)
    /\ ~InvalidId(req[p].args.messageId)

\* C7 as claimed: for a well-formed id, get_message fails with
\* MessageNotFound exactly when the tab is absent, not a sequence or the
\* index out of bounds, and otherwise returns the stored string with tabId k;
\* update_message and delete_message fail with MessageNotFound in the same cases
C7_NotFoundExactly ==
    \A p \in DOMAIN pc :
        Looked(p) =>
            LET k == Target(p).tabKey
                i == Target(p).msgIdx
                out == OutOfDocument(loaded[p], k, i)
            IN  /\ req[p].op = "get_message" =>
                     IF out THEN result[p].error = "MessageNotFound"
                     ELSE /\ Succeeded(result[p])
                          /\ result[p].content = loaded[p].tabs[k].items[i + 1]
                          /\ result[p].tabId = k
                /\ req[p].op \in {"update_message", "delete_message"} =>
                     (result[p].error = "MessageNotFound" <=> out)

\* C8: in get_message, update_message and delete_message an id whose tab
\* part does not parse, parses to 0, or whose index part does not parse
\* yields InvalidIdFormat whatever the loaded Document holds, never
\* MessageNotFound
C8_InvalidIdFirst ==
    \A p \in DOMAIN pc :
        (/\ pc[p] = "done"
         /\ req[p].op \in {"get_message", "update_message", "delete_message"}
         /\ loaded[p] # NoDoc
         /\ InvalidId(req[p].args.messageId)) =>
            result[p].error = "InvalidIdFormat"

\* delete_message of tab0-msg0 on a Document with a tab keyed "0" has
\* been rejected as an invalid id
C8_Witness ==
    /\ Done(1, "delete_message")
    /\ req[1].args.messageId = "tab0-msg0"
    /\ "0" \in DOMAIN loaded[1].tabs
    /\ result[1].error = "InvalidIdFormat"
    /\ stored = loaded[1]

\* C9: update_message and delete_message stamp the Document they post with
\* the current time, create_message posts the lastSaved it loaded, and a
\* successful save stores the posted Document's lastSaved
C9_LastSaved ==
    [][\A p \in DOMAIN pc :
          /\ (pc[p] = "loading" /\ pc'[p] = "saving") =>
                 IF req[p].op \in {"update_message", "delete_message"}
                 THEN body'[p].lastSaved = toLocaleString(now)
                 ELSE body'[p].lastSaved = stored.lastSaved
          /\ (pc[p] = "saving" /\ pc'[p] = "done" /\ Succeeded(result'[p])) =>
                 stored'.lastSaved = body[p].lastSaved]_vars

\* an update_message without content, title or category has stored a new
\* lastSaved and nothing else
C9_Witness ==
    /\ DoneOk(1, "update_message")
    /\ req[1].args = [NoArgs EXCEPT !.messageId = "tab1-msg0"]
    /\ loaded[1].lastSaved = "t0"
    /\ stored.lastSaved = "t2"
    /\ stored.tabs = loaded[1].tabs

-----------------------------------------------------------------------------
(* A session of one caller: call after call on the spec's example Document *)

\* {"1": ["hello"], lastSaved: "t0"}
D0 == MakeDoc(ArrVal(<<"hello">>), Undefined, Undefined, "t0")
\* {"1": ["hello"], "2": ["world"], lastSaved: "t0"}
D1 == MakeDoc(ArrVal(<<"hello">>), ArrVal(<<"world">>), Undefined, "t0")
\* {"1": ["hello", "world"], "2": [], lastSaved: stamp}
D2(stamp) == MakeDoc(ArrVal(<<"hello", "world">>), ArrVal(<<>>), Undefined, stamp)

SessionIds == {"tab1-msg0", "tab1-msg1", "tab2-msg0"}
SessionListArgs ==
    {[NoArgs EXCEPT !.category = cat, !.limit = l] :
        cat \in {NONE, "second messages"}, l \in {NoNumber, Number(1)}}
SessionIdArgs == {[NoArgs EXCEPT !.messageId = m] : m \in SessionIds}
SessionCreateArgs ==
    {[NoArgs EXCEPT !.title = "X", !.content = "world", !.category = cat] :
        cat \in {NONE, "Second Messages"}}
    \cup {[NoArgs EXCEPT !.title = "X", !.content = ""]}
SessionUpdateArgs ==
    {[NoArgs EXCEPT !.messageId = m, !.category = cat] :
        m \in SessionIds, cat \in {NONE, "First Messages", "Second Messages"}}
    \cup {[NoArgs EXCEPT !.messageId = m, !.content = ""] : m \in SessionIds}

\* {lastSaved: "t0"}: a Document without any tab
EmptyDoc == MakeDoc(Undefined, Undefined, Undefined, "t0")

\* {"1": ["hello"], "2": "note", lastSaved: "t0"}: tab "2" holds a scalar
DLegacy == MakeDoc(ArrVal(<<"hello">>), StrVal("note"), Undefined, "t0")

InitSession == InitWith({D0, EmptyDoc, NoFile, DLegacy}, {1}) /\ codec = NoCodec

NextSession ==
    \/ Handlers(1, SessionListArgs, SessionIdArgs, SessionCreateArgs, SessionUpdateArgs)
    \/ Return(1)
    \/ Tick

SpecSession == InitSession /\ [][NextSession]_vars

\* the stamps the clock of the model can give
Stamps == {toLocaleString(t) : t \in 1..MaxTime}

\* C10: on {"1": ["hello"], lastSaved: "t0"}, create_message("X", "world",
\* "Second Messages") stores {"1": ["hello"], "2": ["world"], lastSaved: "t0"}
\* and returns tab2-msg0; then update_message(tab2-msg0, category "First
\* Messages") stores {"1": ["hello", "world"], "2": [], lastSaved: new time}
\* and answers with id tab2-msg0 while the message is at tab1-msg1
C10_Scenario ==
    /\ (/\ DoneOk(1, "create_message")
        /\ req[1].args = [NoArgs EXCEPT !.title = "X", !.content = "world",
                                        !.category = "Second Messages"]
        /\ loaded[1] = D0) =>
            /\ stored = D1
            /\ result[1].id = "tab2-msg0"
    /\ (/\ DoneOk(1, "update_message")
        /\ req[1].args = [NoArgs EXCEPT !.messageId = "tab2-msg0",
                                        !.category = "First Messages"]
        /\ loaded[1] = D1) =>
            /\ stored.lastSaved \in Stamps
            /\ stored = D2(stored.lastSaved)
            /\ result[1].id = "tab2-msg0"
            /\ get_message(stored, [NoArgs EXCEPT !.messageId = "tab1-msg1"]).content
                  = "world"

\* the update of the scenario has been stored
C10_Witness ==
    /\ DoneOk(1, "update_message")
    /\ req[1].args.messageId = "tab2-msg0"
    /\ req[1].args.category = "First Messages"
    /\ loaded[1] = D1
    /\ stored.tabs = D2("t0").tabs

-----------------------------------------------------------------------------
(* Two callers whose operations interleave at their awaits *)

ConcDocs == {D0, D1}
ConcListArgs == {NoArgs}
ConcIdArgs == {[NoArgs EXCEPT !.messageId = "tab1-msg0"]}
ConcCreateArgs ==
    {[NoArgs EXCEPT !.title = "X", !.content = "world"],
     [NoArgs EXCEPT !.title = "X", !.content = "again", !.category = "Third Messages"]}
ConcUpdateArgs ==
    {[NoArgs EXCEPT !.messageId = "tab1-msg0", !.content = "edited", !.category = cat] :
        cat \in {NONE, "Second Messages"}}

InitConc == InitWith(ConcDocs, {1, 2}) /\ codec = NoCodec

NextConc ==
    \/ \E p \in {1, 2} : Handlers(p, ConcListArgs, ConcIdArgs, ConcCreateArgs, ConcUpdateArgs)
    \/ Tick

SpecConc == InitConc /\ [][NextConc]_vars

Mutating == {"create_message", "update_message", "delete_message"}

\* the Documents the operation of p computes from the Document it loaded
Computed(p) ==
    CASE req[p].op = "create_message" -> {create_message(loaded[p], req[p].args)}
      [] req[p].op = "update_message" ->
            {update_message(loaded[p], req[p].args, t) : t \in 1..MaxTime}
      [] req[p].op = "delete_message" ->
            {delete_message(loaded[p], req[p].args, t) : t \in 1..MaxTime}
      [] OTHER -> {}

\* q has saved a Document other than the one both p and q loaded, and p,
\* which loaded before that save, is about to save
Overlapped(p, q) ==
    /\ p # q
    /\ pc[p] = "saving"
    /\ pc[q] = "done"
    /\ req[q].op \in Mutating
    /\ Succeeded(result[q])
    /\ loaded[p] = loaded[q]
    /\ stored = body[q]

\* C5: when two mutating operations both load before either saves, the
\* later save stores the Document its operation computed from what it
\* loaded, without the effect of the other, and both report success
C5_LastSaveWins ==
    [][\A p, q \in DOMAIN pc :
          (Overlapped(p, q) /\ pc'[p] = "done" /\ ~result'[p].isError) =>
              /\ stored' = body[p]
              /\ stored' \in Computed(p)
              /\ Succeeded(result'[p])
              /\ Succeeded(result'[q])]_vars

\* both callers loaded the same Document; caller 2 created "again" in the
\* third tab and saved, then caller 1 saved its edit: the created message
\* is gone and both calls succeeded
C5_Witness ==
    /\ DOMAIN pc = {1, 2}
    /\ DoneOk(1, "update_message")
    /\ DoneOk(2, "create_message")
    /\ req[2].args.content = "again"
    /\ loaded[1] = loaded[2]
    /\ Tab(body[2], "3") = ArrVal(<<"again">>)
    /\ stored = body[1]
    /\ "3" \notin DOMAIN stored.tabs

-----------------------------------------------------------------------------
(* The id codec on its own: encode a (tab key, index) pair, then decode it *)

\* tab keys of the Document model: the string forms of 1..MaxIndex
CodecKeys == {toString(n) : n \in 1..MaxIndex}

CodecInputs ==
    {[NoCodec EXCEPT !.phase = "input", !.tabKey = k, !.msgIdx = i] :
        k \in CodecKeys, i \in 0..MaxIndex}

InitCodec == InitWith({NoDoc}, {1}) /\ codec \in CodecInputs

\* the id is formatted as create_message and get_messages format it
Encode ==
    /\ codec.phase = "input"
    /\ codec' = [codec EXCEPT !.phase = "encoded",
                               !.id = EncodeId(codec.tabKey, codec.msgIdx)]
    /\ UNCHANGED <<stored, now, pc, req, loaded, body, result, fetches, database>>

\* the id is decoded as get_message, update_message and delete_message do
Decode ==
    /\ codec.phase = "encoded"
    /\ codec' = [codec EXCEPT !.phase = "decoded",
                               !.decoded = DecodeId(codec.id),
                               !.invalid = InvalidId(codec.id)]
    /\ UNCHANGED <<stored, now, pc, req, loaded, body, result, fetches, database>>

NextCodec == Encode \/ Decode

SpecCodec == InitCodec /\ [][NextCodec]_vars

\* C2: decoding the id "tab" + k + "-msg" + i yields exactly the tab key k
\* and the index i, and the id is not rejected as invalid
C2_DecodeEncode ==
    codec.phase = "decoded" =>
        /\ ~codec.invalid
        /\ codec.decoded = [tabKey |-> codec.tabKey, msgIdx |-> codec.msgIdx]

\* a two-digit tab key and a two-digit index have been encoded and decoded
C2_Witness ==
    /\ codec.phase = "decoded"
    /\ codec.id = "tab10-msg11"
    /\ codec.decoded = [tabKey |-> "10", msgIdx |-> 11]

-----------------------------------------------------------------------------
(* Listing, the category table and the requests an operation issues *)

\* the get_messages call of p got its Document and was given a category
\* that equals no configured tab name, whatever the case of the letters
UnmatchedList(p) ==
    /\ Done(p, "get_messages")
    /\ loaded[p] # NoDoc
    /\ Given(req[p].args.category)
    /\ \A k \in DOMAIN TAB_NAMES :
           toLowerCase(TAB_NAMES[k]) # toLowerCase(req[p].args.category)

\* C11: get_messages with a category that matches no configured tab name,
\* case-insensitively, returns a success payload with an empty message
\* list and never an error result, for every Document
C11_EmptyForUnmatched ==
    \A p \in DOMAIN pc :
        UnmatchedList(p) => Succeeded(result[p]) /\ result[p].messages = <<>>

\* get_messages with category "Nonexistent" has answered on a Document
\* that holds messages in both tabs
C11_Witness ==
    /\ Done(1, "get_messages")
    /\ req[1].args.category = "Nonexistent"
    /\ Tab(loaded[1], "1") = ArrVal(<<"hello", "world">>)
    /\ Tab(loaded[1], "2") = ArrVal(<<"world">>)
    /\ result[1].messages = <<>>

\* the configured tab entries, in table order
ConfiguredCategories ==
    << [id |-> "1", name |-> "First Messages"], [id |-> "2", name |-> "Second Messages"],
       [id |-> "3", name |-> "Third Messages"], [id |-> "4", name |-> "Fourth Messages"],
       [id |-> "5", name |-> "Short First"], [id |-> "6", name |-> "Not Interested"],
       [id |-> "7", name |-> "Interested"], [id |-> "8", name |-> "Affiliate"],
       [id |-> "9", name |-> "Old Connections"], [id |-> "10", name |-> "New Task"] >>

\* C12: get_categories returns exactly one {id, name} entry per configured
\* tab key, in table order, whatever the stored Document holds (an empty
\* one included) and whatever operations came before, and it issues no
\* load and no save
C12_Categories ==
    \A p \in DOMAIN pc :
        Done(p, "get_categories") =>
            /\ Succeeded(result[p])
            /\ result[p].categories = ConfiguredCategories
            /\ fetches[p] = NoFetches
            /\ loaded[p] = NoDoc
            /\ body[p] = NoDoc

\* get_categories has answered after earlier operations emptied tab "1"
\* and filled tab "2"
C12_Witness ==
    /\ Done(1, "get_categories")
    /\ Tab(stored, "1") = ArrVal(<<>>)
    /\ LenOf(stored, "2") = 2

\* the tools that only read the Document, and the tools that rewrite it
Readers == {"get_messages", "get_message"}
Writers == {"create_message", "update_message", "delete_message"}

\* caller p returns from its call in this step
Returns(p) == pc[p] # "done" /\ pc'[p] = "done"

\* C13: every successful create_message, update_message and delete_message
\* has issued exactly one load and then exactly one save of the whole
\* Document: the save is issued after the one load and is the only one;
\* every successful get_messages and get_message has issued exactly one
\* load and no save, and no step of a reading call changes the stored
\* Document
C13_OneLoadOneSave ==
    [][\A p \in DOMAIN pc :
          /\ (Returns(p) /\ Succeeded(result'[p]) /\ req[p].op \in Writers) =>
                 /\ fetches'[p].loads = 1
                 /\ fetches'[p].saves = 1
                 /\ stored' = body[p]
          /\ fetches'[p].saves > fetches[p].saves =>
                 /\ fetches[p].loads = 1
                 /\ fetches[p].saves = 0
                 /\ fetches'[p].loads = 1
                 /\ fetches'[p].saves = 1
                 /\ req[p].op \in Writers
          /\ (Returns(p) /\ Succeeded(result'[p]) /\ req[p].op \in Readers) =>
                 fetches'[p].loads = 1 /\ fetches'[p].saves = 0
          /\ (pc'[p] # pc[p] /\ req'[p].op \in Readers) =>
                 /\ stored' = stored
                 /\ fetches'[p].saves = 0
      ]_vars

\* a delete_message has succeeded with one load and one save, and the
\* Document it stored differs from the one it loaded
C13_Witness ==
    /\ DoneOk(1, "delete_message")
    /\ fetches[1].loads = 1
    /\ fetches[1].saves = 1
    /\ Tab(loaded[1], "1") = ArrVal(<<"hello", "world">>)
    /\ Tab(stored, "1") = ArrVal(<<"world">>)

\* the store has answered a save of p's call with a failure
SaveRefused(p) == fetches[p].refused > 0

\* C14: when the store reports the save of a create_message,
\* update_message or delete_message as failed, the call ends at once with
\* an error result, not a success payload, and that save stays the only
\* one the call has issued
C14_SaveFailureIsFailure ==
    \A p \in DOMAIN pc :
        SaveRefused(p) =>
            /\ req[p].op \in Writers
            /\ pc[p] = "done"
            /\ result[p].isError
            /\ ~Succeeded(result[p])
            /\ fetches[p].saves = 1
            /\ fetches[p].refused = 1

\* the save of an update_message that moved a message was refused: the
\* call has failed and the stored Document is still the one it loaded
C14_Witness ==
    /\ SaveRefused(1)
    /\ Done(1, "update_message")
    /\ Tab(body[1], "2") = ArrVal(<<"hello">>)
    /\ Tab(loaded[1], "1") = ArrVal(<<"hello">>)
    /\ stored = loaded[1]

\* the arguments of a call with its title replaced and its author dropped
Untitled(args) == [args EXCEPT !.title = "T", !.author = NONE]

\* what the finished or saving call of p posts when it is made with the
\* arguments given
Posted(p, args) ==
    IF req[p].op = "create_message" THEN create_message(loaded[p], args)
    ELSE update_message(loaded[p], args, now)

\* C15: the tabs a create_message or update_message posts, and stores when
\* its save succeeds, are those the same call posts with another non-empty
\* title and without author: the stored Document depends on neither
C15_AuthorTitleIgnored ==
    \A p \in DOMAIN pc :
        (req[p].op \in {"create_message", "update_message"} /\ body[p] # NoDoc) =>
            /\ body[p].tabs = Posted(p, Untitled(req[p].args)).tabs
            /\ DoneOk(p, req[p].op) =>
                   stored.tabs = Posted(p, Untitled(req[p].args)).tabs

\* a create_message with title "Y" and author "ann" has stored its content
C15_Witness ==
    /\ DoneOk(1, "create_message")
    /\ req[1].args.title = "Y"
    /\ req[1].args.author = "ann"
    /\ Tab(loaded[1], "1") = ArrVal(<<"hello">>)
    /\ Tab(stored, "1") = ArrVal(<<"hello", "world">>)

\* the call of p got its Document from a store that held none, and no
\* save has been stored since
LoadedDefault(p) == stored = NoFile /\ loaded[p] # NoDoc

\* the Document shape: every key is a configured tab key and holds a
\* sequence
DocumentShape(doc) ==
    \A k \in DOMAIN doc.tabs :
        k \in DOMAIN TAB_NAMES /\ IsArray(doc.tabs[k])

\* C16: when the store holds no document, the load yields a well-formed
\* default Document: ten tabs in the Document shape (tab key -> sequence),
\* each holding the empty sequence, plus a lastSaved stamp
C16_DefaultDocument ==
    \A p \in DOMAIN pc :
        LoadedDefault(p) =>
            /\ Cardinality(DOMAIN loaded[p].tabs) = 10
            /\ DocumentShape(loaded[p])
            /\ \A k \in DOMAIN loaded[p].tabs : loaded[p].tabs[k] = ArrVal(<<>>)
            /\ loaded[p].lastSaved # NONE

-----------------------------------------------------------------------------
(* What create, update and delete do to the sequences *)

\* the tab keys whose configured name equals the category, letter case aside
NamedBy(category) ==
    {k \in DOMAIN TAB_NAMES : toLowerCase(TAB_NAMES[k]) = toLowerCase(category)}

\* the tab a create_message with this category belongs in
TabFor(category) ==
    IF category # NONE /\ NamedBy(category) # {}
    THEN CHOOSE k \in NamedBy(category) : TRUE
    ELSE "1"

\* every key but those given holds in `new` what it held in `old`
SameElsewhere(old, new, keys) ==
    \A k \in (DOMAIN old.tabs \cup DOMAIN new.tabs) \ keys : Tab(new, k) = Tab(old, k)

\* the sequence `new` is the sequence `old` with one more element, `last`
Appended(old, new, last) ==
    /\ Len(new) = Len(old) + 1
    /\ new[Len(new)] = last
    /\ \A j \in 1..Len(old) : new[j] = old[j]

\* the tab held a truthy value that is not a sequence
Legacy(doc, key) == Truthy(Tab(doc, key)) /\ ~IsArray(Tab(doc, key))

\* C17 as claimed: a successful create_message stores its content as the
\* last element of the tab named by the category, of tab "1" when no
\* category is given or none matches, returns the id tab<key>-msg<old
\* length>, and leaves every earlier element of every tab in place
C17_CreateAppends_Original ==
    \A p \in DOMAIN pc :
        DoneOk(p, "create_message") =>
            LET key == TabFor(req[p].args.category)
            IN  /\ result[p].tabId = key
                /\ IsArray(Tab(stored, key))
                /\ Appended(AsArray(Tab(loaded[p], key)), Tab(stored, key).items,
                            req[p].args.content)
                /\ result[p].id = EncodeId(key, LenOf(loaded[p], key))
                /\ SameElsewhere(loaded[p], stored, {key})

\* C17 amended: as claimed when the tab was absent, falsy or a sequence;
\* a truthy value that is not a sequence is first wrapped as element 0, so
\* the content becomes element 1 and the returned id is tab<key>-msg1: in
\* every case the id's index is the new length minus 1
C17_CreateAppends ==
    \A p \in DOMAIN pc :
        DoneOk(p, "create_message") =>
            LET key == TabFor(req[p].args.category)
                old == Tab(loaded[p], key)
            IN  /\ result[p].tabId = key
                /\ IsArray(Tab(stored, key))
                /\ IF Legacy(loaded[p], key)
                   THEN /\ Tab(stored, key).items =
                              <<Stringify(old), req[p].args.content>>
                        /\ result[p].id = EncodeId(key, 1)
                   ELSE /\ Appended(IF IsArray(old) THEN old.items ELSE <<>>,
                                    Tab(stored, key).items, req[p].args.content)
                        /\ result[p].id = EncodeId(key, LenOf(loaded[p], key))
                /\ result[p].id = EncodeId(key, Len(Tab(stored, key).items) - 1)
                /\ SameElsewhere(loaded[p], stored, {key})

\* a create_message with category "second messages" has appended to the
\* one-element tab "2" and left tab "1" as it was
C17_Witness ==
    /\ DoneOk(1, "create_message")
    /\ req[1].args.category = "second messages"
    /\ Tab(loaded[1], "2") = ArrVal(<<"world">>)
    /\ Tab(stored, "2") = ArrVal(<<"world", "world">>)
    /\ Tab(stored, "1") = ArrVal(<<"hello", "">>)
    /\ result[1].id = "tab2-msg1"

\* the sequence `new` is the sequence `old` without its element at the
\* 0-based index idx, the others in their order
Removed(old, new, idx) ==
    /\ Len(new) = Len(old) - 1
    /\ \A j \in 1..Len(new) : new[j] = IF j <= idx THEN old[j] ELSE old[j + 1]

\* the content the message addressed by p's update has after the update:
\* the new content when one was given, else what was stored under the id
ContentAfter(p) ==
    IF Given(req[p].args.content) THEN req[p].args.content
    ELSE Tab(loaded[p], Target(p).tabKey).items[Target(p).msgIdx + 1]

\* C18: after a successful update_message of (k, i) whose category resolves
\* to another tab d, the last element of tab d is the message's content
\* (the new content when given, else the content stored at (k, i)), the
\* earlier elements of tab d are unchanged, and tab k is its previous
\* sequence with element i removed and the rest in order
C18_MoveContents ==
    \A p \in DOMAIN pc :
        Moved(p) =>
            LET k == Target(p).tabKey
                d == Destination(p)
                dest == Tab(stored, d)
            IN  /\ IsArray(dest)
                /\ Len(dest.items) >= 1
                /\ dest.items[Len(dest.items)] = ContentAfter(p)
                /\ \A j \in 1..LenOf(loaded[p], d) :
                       dest.items[j] = Tab(loaded[p], d).items[j]
                /\ Removed(Tab(loaded[p], k).items, Tab(stored, k).items,
                           Target(p).msgIdx)
                /\ SameElsewhere(loaded[p], stored, {k, d})

\* an update with new content has moved the first of two messages of tab
\* "1" behind the message of tab "2"
C18_Witness ==
    /\ Moved(1)
    /\ req[1].args.messageId = "tab1-msg0"
    /\ req[1].args.content = "world"
    /\ Tab(loaded[1], "1") = ArrVal(<<"hello", "">>)
    /\ Tab(loaded[1], "2") = ArrVal(<<"world">>)
    /\ Tab(stored, "1") = ArrVal(<<"">>)
    /\ Tab(stored, "2") = ArrVal(<<"world", "world">>)

\* C19: the view a successful update_message returns carries the content
\* the updated message has in the resulting Document: the new content when
\* one was given, else its unchanged stored content, also when the update
\* moved the message to another tab
C19_ViewContent ==
    \A p \in DOMAIN pc :
        DoneOk(p, "update_message") => result[p].content = ContentAfter(p)

\* what get_message answers for the id (key, idx) on the Document
Resolve(doc, key, idx) ==
    get_message(doc, [NoArgs EXCEPT !.messageId = EncodeId(key, idx)])

\* C20: a successful delete_message of (k, i) stores a Document in which
\* tab k is its previous sequence with exactly element i removed, the
\* elements before i in place and those after i shifted down by one, and
\* every other tab is unchanged; the ids (k, j) with j < i and the ids of
\* every other tab resolve as before
C20_DeleteRemovesOne ==
    \A p \in DOMAIN pc :
        DoneOk(p, "delete_message") =>
            LET k == Target(p).tabKey
                i == Target(p).msgIdx
            IN  /\ IsArray(Tab(stored, k))
                /\ Removed(Tab(loaded[p], k).items, Tab(stored, k).items, i)
                /\ SameElsewhere(loaded[p], stored, {k})
                /\ \A j \in 0..(i - 1) :
                       /\ Succeeded(Resolve(loaded[p], k, j)) =>
                              Succeeded(Resolve(stored, k, j))
                       /\ Resolve(stored, k, j) = Resolve(loaded[p], k, j)
                /\ \A key \in DOMAIN loaded[p].tabs \ {k} :
                       \A j \in 0..MaxLen :
                           Resolve(stored, key, j) = Resolve(loaded[p], key, j)

\* a delete_message has removed the second of two messages of tab "1":
\* the first still resolves, and so does the message of tab "2"
C20_Witness ==
    /\ DoneOk(1, "delete_message")
    /\ req[1].args.messageId = "tab1-msg1"
    /\ Tab(loaded[1], "1") = ArrVal(<<"hello", "world">>)
    /\ Tab(stored, "1") = ArrVal(<<"hello">>)
    /\ Resolve(stored, "1", 0).content = "hello"
    /\ Resolve(stored, "2", 0).content = "world"

\* the update of p names no category, one that matches no configured name,
\* or the name of the tab its message is in
StaysInTab(p) ==
    \/ ~Given(req[p].args.category)
    \/ NamedBy(req[p].args.category) \subseteq {Target(p).tabKey}

\* the update of p got its Document, addressed a message that exists and
\* its save was not refused
Updatable(p) ==
    /\ Done(p, "update_message")
    /\ loaded[p] # NoDoc
    /\ Given(req[p].args.messageId)
    /\ ~InvalidId(req[p].args.messageId)
    /\ ~MessageMissing(loaded[p], Target(p).tabKey, Target(p).msgIdx)
    /\ ~SaveRefused(p)

\* C21: a successful update_message of (k, i) with no category, with a
\* category that matches no configured tab name, or with the name of tab k
\* replaces only element i of tab k by the new content (and leaves it when
\* no content is given): the length and every other element of tab k and
\* every other tab are unchanged; an unmatched category is not an error
C21_UpdateInPlace ==
    \A p \in DOMAIN pc :
        /\ (DoneOk(p, "update_message") /\ StaysInTab(p)) =>
               LET k == Target(p).tabKey
                   old == Tab(loaded[p], k).items
               IN  /\ IsArray(Tab(stored, k))
                   /\ Tab(stored, k).items =
                          [old EXCEPT ![Target(p).msgIdx + 1] = ContentAfter(p)]
                   /\ SameElsewhere(loaded[p], stored, {k})
        /\ (Updatable(p) /\ StaysInTab(p)) => Succeeded(result[p])

\* an update with new content and a category that matches no name has
\* replaced the first of two messages of tab "1" in place
C21_Witness ==
    /\ DoneOk(1, "update_message")
    /\ req[1].args.messageId = "tab1-msg0"
    /\ req[1].args.category = "Nonexistent"
    /\ req[1].args.content = "world"
    /\ Tab(loaded[1], "1") = ArrVal(<<"hello", "">>)
    /\ Tab(stored, "1") = ArrVal(<<"world", "">>)

\* the tab the finished call of p appended to: the target of a create,
\* the destination of a move
AppendedTo(p) ==
    IF req[p].op = "create_message" THEN TabFor(req[p].args.category)
    ELSE Destination(p)

\* the content the finished call of p appended
AppendedContent(p) ==
    IF req[p].op = "create_message" THEN req[p].args.content ELSE ContentAfter(p)

\* the call of p is a successful create or a successful move
HasAppended(p) == DoneOk(p, "create_message") \/ Moved(p)

\* C22: when the target tab of a create_message, or the destination of an
\* update_message move, is present in the Document but holds a scalar s
\* and no sequence, the stored tab is the two-element sequence
\* [s as a string, appended content], for every scalar s; after every
\* successful create or move the target tab is a sequence
C22_ScalarWrapped ==
    \A p \in DOMAIN pc :
        HasAppended(p) =>
            LET key == AppendedTo(p)
                s == Tab(loaded[p], key)
            IN  /\ IsArray(Tab(stored, key))
                /\ (key \in DOMAIN loaded[p].tabs /\ ~IsArray(s)) =>
                       Tab(stored, key).items = <<Stringify(s), AppendedContent(p)>>

-----------------------------------------------------------------------------
(* Pagination and the consistency of listing with get_message *)

\* the full list of a get_messages call: the messages of the selected tabs
FullList(p) == Flatten(loaded[p], get_messages_targetTabs(loaded[p], req[p].args))

\* the elements of the list at the 0-based positions [start, start + count)
Window(list, start, count) ==
    LET last == IF start + count > Len(list) THEN Len(list) ELSE start + count
    IN  IF start >= last THEN <<>> ELSE [j \in 1..(last - start) |-> list[start + j]]

\* the page a call asks for: 1 when none is given
PageOf(args) == IF args.page.nan THEN 1 ELSE args.page.val

\* the get_messages call of p got its Document and provided an integer
\* limit >= 0 and a page >= 1 or none
Paged(p) ==
    /\ Done(p, "get_messages")
    /\ loaded[p] # NoDoc
    /\ ~req[p].args.limit.nan
    /\ req[p].args.limit.val >= 0
    /\ PageOf(req[p].args) >= 1

\* C23: for every Document, every provided integer limit >= 0 and every
\* page >= 1 (1 when none is given), get_messages returns exactly the
\* elements at positions [(page-1)*limit, (page-1)*limit + limit) of the
\* full list, hence at most limit messages
C23_PageWindow ==
    \A p \in DOMAIN pc :
        Paged(p) =>
            LET limit == req[p].args.limit.val
            IN  /\ Succeeded(result[p])
                /\ result[p].messages =
                       Window(FullList(p), (PageOf(req[p].args) - 1) * limit, limit)
                /\ Len(result[p].messages) <= limit

-----------------------------------------------------------------------------
(* The operation boundary *)

\* the message kinds of the error results the handlers and the dispatcher
\* build
ErrorKinds == {"MissingRequiredField", "InvalidIdFormat", "MessageNotFound",
               "PersistenceFailure", "UnknownTool", "ExecutionFailure"}

\* a structured error result: isError set and a message
StructuredError(r) == r.isError /\ r.error \in ErrorKinds

\* C24: every tool call, whatever the tool name, the arguments and the
\* outcome of the load and of the save, ends with a success payload or
\* with a structured error result that has isError set and a message
C24_ResultOrError ==
    \A p \in DOMAIN pc :
        pc[p] = "done" => (Succeeded(result[p]) \/ StructuredError(result[p]))

-----------------------------------------------------------------------------
(* Listing against get_message, and sequences of writes *)

\* the get_messages call of p got its Document and gave no category
ListedAll(p) ==
    /\ Done(p, "get_messages")
    /\ loaded[p] # NoDoc
    /\ ~Given(req[p].args.category)

\* C25: for every Document D and every view that get_messages returns on
\* D without a category filter, get_message with the view's id on D
\* succeeds and returns the view's content, tabId and category
C25_ListedIsGettable ==
    \A p \in DOMAIN pc :
        ListedAll(p) =>
            \A j \in 1..Len(result[p].messages) :
                LET view == result[p].messages[j]
                    got == get_message(loaded[p], [NoArgs EXCEPT !.messageId = view.id])
                IN  /\ Succeeded(got)
                    /\ got.content = view.content
                    /\ got.tabId = view.tabId
                    /\ got.category = view.category

\* no sequence of the Document holds an empty string
NoEmptyMessage(doc) ==
    \A k \in DOMAIN doc.tabs :
        IsArray(doc.tabs[k]) => \A j \in 1..Len(doc.tabs[k].items) : doc.tabs[k].items[j] # ""

\* C26: from a stored Document without empty strings, after any sequence
\* of create_message, update_message and delete_message calls run one at
\* a time, no tab of the stored Document holds an empty string and every
\* index within the bounds of a tab is retrievable by get_message
C26_NoEmptyMessage ==
    /\ NoEmptyMessage(stored)
    /\ \A k \in DOMAIN stored.tabs :
           IsArray(stored.tabs[k]) =>
               \A j \in 1..Len(stored.tabs[k].items) :
                   /\ Succeeded(Resolve(stored, k, j - 1))
                   /\ Resolve(stored, k, j - 1).content = stored.tabs[k].items[j]

\* an update_message with the empty string as content has been stored
\* after a create_message wrapped the scalar of tab "2"
C26_Witness ==
    /\ DoneOk(1, "update_message")
    /\ req[1].args.content = ""
    /\ Tab(stored, "2") = ArrVal(<<"note", "world">>)
    /\ stored.lastSaved # "t0"

-----------------------------------------------------------------------------
(* The document store: POST /api/save-data and GET /data.json with the
   database and its file fallback *)

\* JSON.stringify(data, null, 4): the entries of the object in the order of
\* Object.keys, integer keys ascending first
JSONstringify(data) ==
    LET numeric == {k \in DOMAIN data.tabs : ~parseInt(k).nan}
        keys == SortKeys(numeric) \o SortKeys(DOMAIN data.tabs \ numeric)
    IN  [j \in 1..Len(keys) |-> [key |-> keys[j], value |-> data.tabs[keys[j]]]]
        \o (IF data.lastSaved = NONE THEN <<>>
            ELSE <<[key |-> "lastSaved", value |-> StrVal(data.lastSaved)]>>)

\* JSON.parse(fileContent): the object of the entries of the text
JSONparse(text) ==
    LET entry(k) == text[CHOOSE j \in DOMAIN text : text[j].key = k]
        keys == {text[j].key : j \in DOMAIN text}
    IN  [tabs |-> [k \in keys \ {"lastSaved"} |-> entry(k).value],
         lastSaved |-> IF "lastSaved" \in keys THEN entry("lastSaved").value.str
                       ELSE NONE]

\* fs.writeFileSync('data.json', jsonString) and the file read back by
\* loadDataFromFile: the document the written text denotes
writeFileSync(data) == JSONparse(JSONstringify(data))

\* storage.saveData(data) when it resolves: the database holds the document
saveData(data) == data

\* storage.getData() when it resolves: the document the database holds
getData(db) == db.data

\* the Documents the store is posted
StoreDocs == {D0, D1, D2("t1"), EmptyDoc}

\* the store starts without file or with one, and without database or
\* with a database that holds a Document
InitStore ==
    /\ stored \in {NoFile, D0}
    /\ database \in {NoDatabase} \cup {[storage |-> TRUE, data |-> d] : d \in {D0, D1}}
    /\ now = 1
    /\ pc = [p \in {1} |-> "idle"]
    /\ req = [p \in {1} |-> NoReq]
    /\ loaded = [p \in {1} |-> NoDoc]
    /\ body = [p \in {1} |-> NoDoc]
    /\ result = [p \in {1} |-> NoResult]
    /\ fetches = [p \in {1} |-> NoFetches]
    /\ codec = NoCodec

\* the store has answered the POST of `data` with success
Answered(data) ==
    /\ pc' = [pc EXCEPT ![1] = "saved"]
    /\ body' = [body EXCEPT ![1] = data]
    /\ UNCHANGED <<now, req, loaded, result, fetches, codec>>

\* handleSaveData, storage available and storage.saveData resolves
handleSaveData_database ==
    /\ database.storage
    /\ \E data \in StoreDocs :
          /\ database' = [database EXCEPT !.data = saveData(data)]
          /\ UNCHANGED stored
          /\ Answered(data)

\* handleSaveData, storage.saveData rejects: the catch writes data.json
handleSaveData_fallback ==
    /\ database.storage
    /\ \E data \in StoreDocs :
          /\ stored' = handleSaveData(stored, writeFileSync(data))
          /\ UNCHANGED database
          /\ Answered(data)

\* handleSaveData, storage is null: data.json is written
handleSaveData_file ==
    /\ ~database.storage
    /\ \E data \in StoreDocs :
          /\ stored' = handleSaveData(stored, writeFileSync(data))
          /\ UNCHANGED database
          /\ Answered(data)

\* the store has answered the GET that follows the save with `data`
Served(data) ==
    /\ pc[1] = "saved"
    /\ pc' = [pc EXCEPT ![1] = "loaded"]
    /\ loaded' = [loaded EXCEPT ![1] = data]
    /\ UNCHANGED <<stored, now, req, body, result, fetches, codec, database>>

\* handleGetData, storage available and storage.getData resolves
handleGetData_database == database.storage /\ Served(getData(database))

\* handleGetData, storage.getData rejects: the catch loads the file
handleGetData_fallback == database.storage /\ Served(loadDataFromFile(stored, now))

\* handleGetData, storage is null: the file is loaded
handleGetData_file == ~database.storage /\ Served(handleGetData(stored, now))

NextStore ==
    \/ handleSaveData_database
    \/ handleSaveData_fallback
    \/ handleSaveData_file
    \/ handleGetData_database
    \/ handleGetData_fallback
    \/ handleGetData_file

SpecStore == InitStore /\ [][NextStore]_vars

\* C27: after POST /api/save-data has answered success for a Document D,
\* the next GET /data.json with no save in between returns D, whether the
\* database is absent, or its save or its load fails and falls back to
\* the file
C27_SaveLoadRoundTrip ==
    pc[1] = "loaded" => loaded[1] = body[1]
====
